---- MODULE Spec2Model ----
(***************************************************************************)
(* Playback engine of Trusler's MIDI Player (src/0.0.3.py, MidiPlayerApp): *)
(* the GUI thread's controller operations (load_and_play_midi,             *)
(* pause_playback, stop_playback, the completion timer), the parse_worker  *)
(* thread, the midi_worker threads that share midi_event_queue, the note   *)
(* tracker (active_notes, note_history) and the two output ports.          *)
(* A thread's position is a program counter; one action is one step that  *)
(* the interpreter can interleave with the steps of the other threads.     *)
(***************************************************************************)
EXTENDS Integers, Sequences, FiniteSets, TLC

(* ------------------------------ bounds --------------------------------- *)
\* wall-clock instants 0..MaxTime (time.time() in ticks)
MaxTime == 1
\* files the user starts in one run, when that is all the user does
MaxLoads == 2
\* files the user starts in a run in which the user also pauses or stops
SessionLoads == 1
\* presses of pause / resume in one run
MaxPauses == 2
\* presses of stop in one run
MaxStops == 2
\* calls of connect_port / disconnect_port / toggle_port_connection in one run
MaxPortOps == 3
\* messages of a file whose content is chosen freely, its end_of_track apart
MaxMessages == 3
\* calls of restart_threads in one run
MaxRestarts == 1
\* uses of the file list and of the play / previous / next buttons in one run
MaxListOps == 3
\* files the file dialog returns at once
MaxSelection == 2
\* the capacity of midi_event_queue scaled down to the size of the files, for
\* the runs in which the queue fills up
MaxQueue == 1

(* ------------------------- program constants --------------------------- *)
\* init_threads: self.num_midi_threads = 2 (standard mode)
num_midi_threads == 2
\* midi_worker: batch_size = 100 if self.black_midi_mode else 10
batch_size == 10
\* all_notes_off: for channel in range(16)
NumChannels == 16
\* init_config: self.note_history = deque(maxlen=50)
HistoryMaxLen == 50
\* midi_worker: if local_event_count >= 100
FlushCount == 100
\* check_playback_complete: QTimer.singleShot(500, self.stop_playback); the
\* model keeps the pending timers, not the delay
None == -1
\* init_config: self.current_tempo = 120
DefaultTempo == 120
\* init_config: self.current_time_signature = (4, 4)
DefaultTimeSignature == << 4, 4 >>
\* init_config: self.current_key = None
NoKey == "none"

Workers == 0 .. (num_midi_threads - 1)
Ports == {1, 2}

\* the output devices mido lists (the entries of port1_combo / port2_combo)
Devices == {"dev1", "dev2"}
\* port1_name = None, port1_out = None
NoDevice == "none"

(* ------------------------------ inputs --------------------------------- *)
\* The files the user can play.  "A": one note, one second long.  "B": a
\* tempo event and a note at time 0, length 0.  "X": not a MIDI file
\* (MidiFile raises).
Files == {"A", "B", "X"}

Msg(f, i, t, ty, n, v) ==
    [file |-> f, idx |-> i, time |-> t, type |-> ty, note |-> n, velocity |-> v]

\* a message of a MidiFile as `for msg in midi_file` yields it: msg.time is
\* the delta to the message before it, in seconds (ticks of the wall clock)
MidiMsg(ty, dt, n, v) == [type |-> ty, time |-> dt, note |-> n, velocity |-> v]

\* the meta messages handle_meta_message reads: a set_tempo with its tempo in
\* microseconds per beat, a time_signature, a key_signature
set_tempo(dt, tempo) == [type |-> "set_tempo", time |-> dt, tempo |-> tempo]
time_signature(dt, numerator, denominator) ==
    [type |-> "time_signature", time |-> dt,
     numerator |-> numerator, denominator |-> denominator]
key_signature(dt, key) == [type |-> "key_signature", time |-> dt, key |-> key]

\* what the files contain (file "B" sets the tempo of 500000 microseconds
\* per beat, 120 BPM)
StandardFiles ==
    [f \in Files |->
        CASE f = "A" -> << MidiMsg("note_on", 0, 60, 64),
                           MidiMsg("note_off", 1, 60, 0),
                           MidiMsg("end_of_track", 0, 0, 0) >>
          [] f = "B" -> << set_tempo(0, 500000),
                           MidiMsg("note_on", 0, 62, 64),
                           MidiMsg("end_of_track", 0, 0, 0) >>
          [] OTHER   -> << >>]

\* the messages a freely chosen file is made of: a note_on, a note_on with
\* velocity 0, a note_off and a channel aftertouch, each 0 or 1 after the
\* message before it
DeltaTimes == {0, 1}
FileMessages ==
    { MidiMsg(ty, dt, 60, v) :
        ty \in {"note_on"}, dt \in DeltaTimes, v \in {0, 64} }
    \cup { MidiMsg(ty, dt, 60, 0) :
              ty \in {"note_off", "aftertouch"}, dt \in DeltaTimes }

\* the files of up to MaxMessages messages and the end_of_track that mido
\* puts at the end of the merged track
FileContents ==
    { body \o << MidiMsg("end_of_track", 0, 0, 0) >> :
        body \in UNION { [1 .. n -> FileMessages] : n \in 0 .. MaxMessages } }

\* a file that strikes note 60 twice, a second apart, with no note_off between
RetriggerFile ==
    << MidiMsg("note_on", 0, 60, 64),
       MidiMsg("note_on", 1, 60, 80),
       MidiMsg("end_of_track", 0, 0, 0) >>

\* a file that changes the tempo: 666667 microseconds per beat (90 BPM), a
\* 3/4 time signature and the key of G at the start, 400000 microseconds per
\* beat (150 BPM) a second later
MetaFile ==
    << set_tempo(0, 666667),
       time_signature(0, 3, 4),
       key_signature(0, "G"),
       set_tempo(1, 400000),
       MidiMsg("end_of_track", 0, 0, 0) >>

\* MidiFile(file_path) raises for a file it cannot parse
Parses(f) == f # "X"

\* parse_worker: if msg.type in ['note_on', 'note_off', ...]
ParsedTypes ==
    {"note_on", "note_off", "control_change", "program_change", "pitchwheel",
     "set_tempo", "time_signature", "key_signature"}

\* current_time += msg.time, over the first i messages
RECURSIVE current_time(_, _)
current_time(msgs, i) ==
    IF i = 0 THEN 0 ELSE current_time(msgs, i - 1) + msgs[i].time

\* msg.is_meta
is_meta(m) == m.type \in {"set_tempo", "time_signature", "key_signature"}

\* the queue item (event_time, msg) of a meta message: the message with its
\* absolute time, its file and its place among the file's events
MetaEvent(f, i, t, m) == [m EXCEPT !.time = t] @@ [file |-> f, idx |-> i]

\* parse_worker's loop over the messages: `events`, the kept messages with
\* their absolute times; zero_filter is "self.black_midi_mode and
\* self.filter_zero_velocity_check.isChecked()"
ParseEvents(f, msgs, zero_filter) ==
    LET Kept(i) ==
            /\ msgs[i].type \in ParsedTypes
            /\ ~(zero_filter /\ msgs[i].type = "note_on" /\ msgs[i].velocity = 0)
        kept == SelectSeq([i \in 1 .. Len(msgs) |-> i], Kept)
    IN  [k \in 1 .. Len(kept) |->
            LET m == msgs[kept[k]]
                t == current_time(msgs, kept[k])
            IN  IF is_meta(m) THEN MetaEvent(f, k, t, m)
                ELSE Msg(f, k, t, m.type, m.note, m.velocity)]

NoMsg == [type |-> "none"]

VARIABLES
    now,               \* time.time()
    is_playing, is_paused, playback_complete,
    pause_event,       \* threading.Event: TRUE when set
    start_time, total_time,
    midi_event_queue,  \* queue.Queue: the deque, head first
    parse_queue,
    active_notes,      \* dict note -> note_info, its items in insertion order
    port_connected,    \* port1_connected, port2_connected
    port_broken,       \* the device of port p raises on send
    port_name,         \* port1_name, port2_name
    port_out,          \* port1_out, port2_out: the device the handle was opened on
    black_midi_mode,
    filter_zero_velocity_check,   \* the check box's isChecked()
    midi_files,        \* what MidiFile(file_path) reads: the messages of each file
    maxsize,           \* midi_event_queue.maxsize
    note_history,      \* deque(maxlen=50), newest entry first
    message_count,
    log,               \* the last error entry log() emitted
    current_tempo, current_time_signature, current_key,
    stop_event,        \* threading.Event: TRUE when set
    parse_threads,     \* how many parse_worker threads are alive
    note_threads,      \* how many note_worker threads are alive
    playlist,          \* the list of file paths
    current_file_index,
    worker,            \* per midi_worker thread: pc and locals
    parser,            \* parse_worker: pc and the events still to put
    gui,               \* GUI thread: pc, return address, file being loaded
    stop_timers,       \* pending QTimer.singleShot(500, stop_playback)
    sent,              \* observation: what each port's send() accepted since
                       \* the running session was started
    removed,           \* observation: the events midi_worker's get() took out
                       \* since the running session was started
    ops,               \* observation: the user's calls so far, by kind, and
                       \* how the last call on a port ended
    session            \* observation: the running session's file, the elapsed
                       \* time at its last pause, whether it was resumed just now

vars == << now, is_playing, is_paused, playback_complete, pause_event,
           start_time, total_time, midi_event_queue, parse_queue, active_notes,
           port_connected, port_broken, port_name, port_out, black_midi_mode,
           filter_zero_velocity_check, midi_files, maxsize, note_history,
           message_count, log, current_tempo, current_time_signature,
           current_key, stop_event, parse_threads, note_threads, playlist,
           current_file_index, worker, parser, gui, stop_timers,
           sent, removed, ops, session >>

\* parse_worker's `events` for file f
FileEvents(f) ==
    ParseEvents(f, midi_files[f], black_midi_mode /\ filter_zero_velocity_check)

\* midi_file.length: the sum of the messages' delta times
MidiLength(f) == current_time(midi_files[f], Len(midi_files[f]))

(* ------------------------------ helpers -------------------------------- *)
\* self.portN_out.send(msg) for the connected ports, port 1 first
\* (send_midi_message's and all_notes_off's "if self.port1_connected: ...
\* if self.port2_connected: ..."): the ports' logs after the message and
\* whether a send raised.  A raise skips what follows it.
PortSend(s, m) ==
    IF port_connected[1] /\ port_broken[1]
    THEN [sent |-> s, raised |-> TRUE]
    ELSE LET s1 == IF port_connected[1]
                   THEN [s EXCEPT ![1] = Append(@, m)] ELSE s
         IN  IF port_connected[2] /\ port_broken[2]
             THEN [sent |-> s1, raised |-> TRUE]
             ELSE [sent |-> IF port_connected[2]
                            THEN [s1 EXCEPT ![2] = Append(@, m)] ELSE s1,
                   raised |-> FALSE]

\* a run of sends inside one try block: the first raise ends the run
RECURSIVE SendSeq(_, _)
SendSeq(s, msgs) ==
    IF msgs = << >> THEN [sent |-> s, raised |-> FALSE]
    ELSE LET r == PortSend(s, Head(msgs))
         IN  IF r.raised THEN r ELSE SendSeq(r.sent, Tail(msgs))

\* send_midi_message(msg): the exception is caught and logged
send_midi_message(s, m) == PortSend(s, m).sent

\* Message('control_change', channel=channel, control=123, value=0)
cc_message(channel) ==
    [type |-> "control_change", channel |-> channel, control |-> 123, value |-> 0]

\* Message('note_off', note=note, velocity=0)
note_off_message(note) == [type |-> "note_off", note |-> note, velocity |-> 0]

\* the messages all_notes_off sends, in its order
AllNotesOffMessages(notes) ==
    [i \in 1 .. NumChannels |-> cc_message(i - 1)]
    \o [i \in 1 .. Len(notes) |-> note_off_message(notes[i].note)]

\* all_notes_off(): one try block around the sends and active_notes.clear()
all_notes_off(s, notes) ==
    LET r == SendSeq(s, AllNotesOffMessages(notes))
    IN  [sent |-> r.sent, active_notes |-> IF r.raised THEN notes ELSE << >>,
         raised |-> r.raised]

\* the dict active_notes as the sequence of its items in insertion order
HasNote(notes, n) == \E i \in 1 .. Len(notes) : notes[i].note = n

RemoveNote(notes, n) == SelectSeq(notes, LAMBDA e : e.note # n)

\* self.active_notes[note] = note_info: an existing key keeps its place
PutNote(notes, n, v, t) ==
    LET info == [note |-> n, velocity |-> v, start_time |-> t]
    IN  IF HasNote(notes, n)
        THEN [i \in 1 .. Len(notes) |-> IF notes[i].note = n THEN info ELSE notes[i]]
        ELSE Append(notes, info)

\* appendleft on a deque that makes room at the wrong end: when it is full
\* the newest entry it holds is dropped
appendleft_drop_newest(history, entry) ==
    IF Len(history) < HistoryMaxLen THEN << entry >> \o history
    ELSE << entry >> \o SubSeq(history, 2, Len(history))

\* self.note_history.appendleft(entry) on a deque(maxlen=50): the entry goes
\* first and the oldest entry falls off the end
appendleft(history, entry) ==
    SubSeq(<< entry >> \o history, 1,
           IF Len(history) < HistoryMaxLen THEN Len(history) + 1 ELSE HistoryMaxLen)

\* a note_history entry of type 'ON' (the display fields time, name and
\* octave are left out)
OnEntry(n, v) == [type |-> "ON", note |-> n, velocity |-> v]

\* a note_history entry of type 'OFF'
OffEntry(n, d) == [type |-> "OFF", note |-> n, duration |-> d]

\* self.active_notes[note]['start_time']
StartOf(notes, n) ==
    LET i == CHOOSE i \in 1 .. Len(notes) : notes[i].note = n
    IN  notes[i].start_time

\* handle_note_on(note, velocity) in standard mode (black_midi_mode False):
\* active_notes and note_history after it
handle_note_on(notes, history, n, v, t) ==
    [active_notes |-> PutNote(notes, n, v, t),
     note_history |-> appendleft(history, OnEntry(n, v))]

\* handle_note_off(note) in standard mode
handle_note_off(notes, history, n, t) ==
    IF HasNote(notes, n)
    THEN [active_notes |-> RemoveNote(notes, n),
          note_history |-> appendleft(history, OffEntry(n, t - StartOf(notes, n)))]
    ELSE [active_notes |-> notes, note_history |-> history]

\* handle_note_event(msg)
handle_note_event(notes, history, m, t) ==
    IF m.type = "note_on" /\ m.velocity > 0
    THEN handle_note_on(notes, history, m.note, m.velocity, t)
    ELSE IF m.type = "note_off" \/ (m.type = "note_on" /\ m.velocity = 0)
         THEN handle_note_off(notes, history, m.note, t)
         ELSE [active_notes |-> notes, note_history |-> history]

\* round(mido.tempo2bpm(tempo)): 60000000 / tempo beats per minute, rounded
\* to the nearest integer, a tie to the even one
round_tempo2bpm(tempo) ==
    LET q == 60000000 \div tempo
        r == 60000000 % tempo
    IN  IF 2 * r > tempo THEN q + 1
        ELSE IF 2 * r < tempo THEN q
        ELSE IF q % 2 = 0 THEN q ELSE q + 1

\* the shared tempo / time-signature / key state
MetaState(tempo, sig, key) ==
    [current_tempo |-> tempo, current_time_signature |-> sig, current_key |-> key]

\* handle_meta_message(msg): the state after it
handle_meta_message(st, m) ==
    IF m.type = "set_tempo"
    THEN [st EXCEPT !.current_tempo = round_tempo2bpm(m.tempo)]
    ELSE IF m.type = "time_signature"
    THEN [st EXCEPT !.current_time_signature = << m.numerator, m.denominator >>]
    ELSE IF m.type = "key_signature"
    THEN [st EXCEPT !.current_key = m.key]
    ELSE st

\* extract_midi_info(midi_file): the defaults, then every set_tempo,
\* time_signature and key_signature of the file in the order of its track
\* (the files have one track)
RECURSIVE extract_midi_info(_, _)
extract_midi_info(msgs, i) ==
    IF i = 0 THEN MetaState(DefaultTempo, DefaultTimeSignature, NoKey)
    ELSE handle_meta_message(extract_midi_info(msgs, i - 1), msgs[i])

\* the error entries log() emits: self.log(text, "error", is_fatal=...)
NoLog == [level |-> "none"]
ErrorLog(where, fatal) == [level |-> "error", is_fatal |-> fatal, where |-> where]

(* ------------------------------- Init ---------------------------------- *)
\* midi_event_queue = queue.Queue(maxsize=100000)
QueueMaxSize == 100000

\* a midi_worker at the top of its while loop
IdleWorker ==
    [pc |-> "check", elapsed_time |-> 0, msg |-> NoMsg,
     event_processed |-> FALSE, batch_count |-> 0, local_event_count |-> 0]

\* the worker back at the top of its while loop: the locals of the tick are
\* dead, local_event_count lives on
NextTick(wk) == [IdleWorker EXCEPT !.local_event_count = wk.local_event_count]

\* the port connections the user has made before playing
PortConfigs == {[p \in Ports |-> TRUE]}

\* the device the user connects port p to before playing
DeviceOf(p) == IF p = 1 THEN "dev1" ELSE "dev2"

\* the state of a player that plays nothing, but for the ports, the
\* settings, the note history and the playlist
Stopped ==
    /\ now = 0
    /\ is_playing = FALSE /\ is_paused = FALSE /\ playback_complete = FALSE
    /\ pause_event = TRUE
    /\ start_time = None /\ total_time = 0
    /\ midi_event_queue = << >> /\ parse_queue = << >>
    /\ active_notes = << >>
    /\ port_broken = [p \in Ports |-> FALSE]
    /\ message_count = 0
    /\ log = NoLog
    /\ current_tempo = DefaultTempo
    /\ current_time_signature = DefaultTimeSignature
    /\ current_key = NoKey
    /\ stop_event = FALSE
    /\ parse_threads = 1
    /\ note_threads = 1
    /\ worker = [w \in Workers |-> IdleWorker]
    /\ parser = [pc |-> "idle", events |-> << >>]
    /\ gui = [pc |-> "idle", ret |-> "idle", file |-> "A"]
    /\ stop_timers = 0
    /\ sent = [p \in Ports |-> << >>]
    /\ removed = {}
    /\ ops = [load |-> 0, pause |-> 0, stop |-> 0, stops_in_a_row |-> 0, port |-> 0,
              port_call |-> "none", restart |-> 0, list |-> 0]
    /\ session = [file |-> "", elapsed_at_pause |-> None, resumed |-> FALSE]

\* the state after __init__ (init_config, init_threads), but for the ports
\* and the settings
Constructed ==
    /\ Stopped
    /\ note_history = << >>
    /\ playlist = << >>
    /\ current_file_index = -1

\* the user has connected the ports, each to its own device
Connected ==
    /\ port_connected \in PortConfigs
    /\ port_name = [p \in Ports |-> DeviceOf(p)]
    /\ port_out = [p \in Ports |-> DeviceOf(p)]

\* standard mode, the filter check box as create_playback_control_area
\* leaves it (setChecked(True)), the files on disk
StandardSettings ==
    /\ black_midi_mode = FALSE
    /\ filter_zero_velocity_check = TRUE
    /\ midi_files = StandardFiles

\* the state after __init__ and the user's connect_port calls
Init ==
    /\ Constructed
    /\ Connected
    /\ StandardSettings
    /\ maxsize = QueueMaxSize

playback == << is_playing, is_paused, playback_complete, pause_event, start_time >>
queues == << midi_event_queue, parse_queue >>
ports == << port_connected, port_broken, port_name, port_out >>
config == << black_midi_mode, filter_zero_velocity_check, midi_files, maxsize >>
tracking == << note_history, message_count, log >>
meta == << current_tempo, current_time_signature, current_key >>
threads == << stop_event, parse_threads, note_threads >>
lists == << playlist, current_file_index >>

(* --------------------------- the GUI thread ---------------------------- *)
\* The GUI thread runs one handler at a time; gui.pc is its position in
\* stop_playback / load_and_play_midi, gui.ret where stop_playback returns to.
GuiIdle == gui.pc = "idle"

\* the user presses stop: stop_playback() is entered
UserStop ==
    /\ GuiIdle
    /\ gui' = [gui EXCEPT !.pc = "stop", !.ret = "idle"]
    /\ ops' = [ops EXCEPT !.stop = @ + 1, !.stops_in_a_row = @ + 1]
    /\ session' = [session EXCEPT !.resumed = FALSE]
    /\ UNCHANGED << config, meta, threads, lists, tracking, now, playback, total_time, queues, active_notes, ports,
                    worker, parser, stop_timers, sent, removed >>

\* QTimer.singleShot(500, self.stop_playback) fires: stop_playback() is entered
TimerFire ==
    /\ GuiIdle /\ stop_timers > 0
    /\ stop_timers' = stop_timers - 1
    /\ gui' = [gui EXCEPT !.pc = "stop", !.ret = "idle"]
    /\ session' = [session EXCEPT !.resumed = FALSE]
    /\ UNCHANGED << config, meta, threads, lists, tracking, now, playback, total_time, queues, active_notes, ports,
                    worker, parser, sent, removed, ops >>

\* load_and_play_midi(file_path) is entered: its first statement calls
\* stop_playback()
UserLoad(f) ==
    /\ GuiIdle
    /\ gui' = [pc |-> "stop", ret |-> "load", file |-> f]
    /\ ops' = [ops EXCEPT !.load = @ + 1, !.stops_in_a_row = 0]
    /\ session' = [session EXCEPT !.resumed = FALSE]
    /\ UNCHANGED << config, meta, threads, lists, tracking, now, playback, total_time, queues, active_notes, ports,
                    worker, parser, stop_timers, sent, removed >>

\* pause_playback(): pause when Playing, resume when Paused, else nothing
pause_playback ==
    /\ GuiIdle
    /\ ops' = [ops EXCEPT !.pause = @ + 1, !.stops_in_a_row = 0]
    /\ IF is_playing /\ ~is_paused
       THEN /\ is_paused' = TRUE
            /\ pause_event' = FALSE
            /\ session' = [session EXCEPT
                              !.elapsed_at_pause =
                                  IF start_time = None THEN None ELSE now - start_time,
                              !.resumed = FALSE]
       ELSE IF is_playing /\ is_paused
       THEN /\ is_paused' = FALSE
            /\ pause_event' = TRUE
            /\ session' = [session EXCEPT !.resumed = TRUE]
       ELSE /\ UNCHANGED << is_paused, pause_event >>
            /\ session' = [session EXCEPT !.resumed = FALSE]
    /\ UNCHANGED << config, meta, threads, lists, tracking, now, is_playing, playback_complete, start_time, total_time,
                    queues, active_notes, ports, worker, parser, gui,
                    stop_timers, sent, removed >>

\* clear_queues(): get_nowait() until Empty, on both queues
clear_queues ==
    /\ midi_event_queue' = << >>
    /\ parse_queue' = << >>

\* stop_playback without its self.pause_event.set()
StopPlaybackGateKept ==
    /\ gui.pc = "stop"
    /\ is_playing' = FALSE
    /\ is_paused' = FALSE
    /\ playback_complete' = FALSE
    /\ start_time' = None
    /\ LET r == all_notes_off(sent, active_notes)
       IN  /\ sent' = r.sent
           /\ active_notes' = r.active_notes
           /\ log' = IF r.raised THEN ErrorLog("all_notes_off", TRUE) ELSE log
    /\ clear_queues
    /\ gui' = [gui EXCEPT !.pc = "stop_active"]
    /\ UNCHANGED << config, meta, threads, lists, note_history, message_count,
                    now, pause_event, total_time, ports, worker, parser,
                    stop_timers, removed, ops, session >>

\* stop_playback, first part: the flags, self.all_notes_off() and
\* self.clear_queues()
StopPlayback ==
    /\ gui.pc = "stop"
    /\ is_playing' = FALSE
    /\ is_paused' = FALSE
    /\ playback_complete' = FALSE
    /\ pause_event' = TRUE
    /\ start_time' = None
    /\ LET r == all_notes_off(sent, active_notes)
       IN  /\ sent' = r.sent
           /\ active_notes' = r.active_notes
           /\ log' = IF r.raised THEN ErrorLog("all_notes_off", TRUE) ELSE log
    /\ clear_queues
    /\ gui' = [gui EXCEPT !.pc = "stop_active"]
    /\ UNCHANGED << config, meta, threads, lists, note_history, message_count, now, total_time, ports, worker, parser, stop_timers,
                    removed, ops, session >>

\* stop_playback, second part: self.active_notes.clear(), and the return to
\* the caller
StopActiveClear ==
    /\ gui.pc = "stop_active"
    /\ active_notes' = << >>
    /\ gui' = [gui EXCEPT !.pc = gui.ret, !.ret = "idle"]
    /\ UNCHANGED << config, meta, threads, lists, tracking, now, playback, total_time, queues, ports, worker, parser,
                    stop_timers, sent, removed, ops, session >>

\* load_and_play_midi after its stop_playback(): self.clear_queues(),
\* MidiFile(file_path), total_time, the reset of the session state and
\* extract_midi_info; when MidiFile raises, the except branch calls
\* stop_playback()
LoadStart ==
    /\ gui.pc = "load"
    /\ clear_queues
    /\ IF Parses(gui.file)
       THEN /\ total_time' = MidiLength(gui.file)
            /\ message_count' = 0
            /\ playback_complete' = FALSE
            /\ start_time' = now
            /\ is_playing' = TRUE
            /\ is_paused' = FALSE
            /\ gui' = [gui EXCEPT !.pc = "load_put"]
            /\ sent' = [p \in Ports |-> << >>]
            /\ removed' = {}
            /\ session' = [file |-> gui.file, elapsed_at_pause |-> None,
                           resumed |-> FALSE]
            /\ LET st == extract_midi_info(midi_files[gui.file],
                                            Len(midi_files[gui.file]))
               IN  /\ current_tempo' = st.current_tempo
                   /\ current_time_signature' = st.current_time_signature
                   /\ current_key' = st.current_key
            /\ UNCHANGED << pause_event, log >>
       ELSE /\ gui' = [gui EXCEPT !.pc = "stop", !.ret = "idle"]
            /\ log' = ErrorLog("load_and_play_midi", TRUE)
            /\ UNCHANGED << playback, total_time, message_count, sent, removed,
                            session, meta >>
    /\ UNCHANGED << config, threads, lists, note_history, now, active_notes, ports, worker,
                    parser, stop_timers, ops >>

\* load_and_play_midi: self.parse_queue.put((midi_file, file_path))
LoadPut ==
    /\ gui.pc = "load_put"
    /\ parse_queue' = Append(parse_queue, gui.file)
    /\ gui' = [gui EXCEPT !.pc = "idle"]
    /\ UNCHANGED << config, meta, threads, lists, tracking, now, playback, total_time, midi_event_queue, active_notes,
                    ports, worker, parser, stop_timers, sent, removed, ops, session >>

(* ------------------------------ the ports ------------------------------ *)
\* what port_combo.currentText() can be: a listed device, or "" (no device)
ComboTexts == Devices \cup {""}

\* connect_port that stores the name before it opens the device
connect_port_name_first(n, text, opens) ==
    /\ GuiIdle
    /\ IF text = ""
       THEN /\ ops' = [ops EXCEPT !.port = @ + 1, !.port_call = "nothing"]
            /\ UNCHANGED << ports, log >>
       ELSE IF opens
       THEN /\ ops' = [ops EXCEPT !.port = @ + 1, !.port_call = "opened"]
            /\ port_out' = [port_out EXCEPT ![n] = text]
            /\ port_connected' = [port_connected EXCEPT ![n] = TRUE]
            /\ port_name' = [port_name EXCEPT ![n] = text]
            /\ port_broken' = [port_broken EXCEPT ![n] = FALSE]
            /\ UNCHANGED log
       ELSE /\ ops' = [ops EXCEPT !.port = @ + 1, !.port_call = "open_failed"]
            /\ port_name' = [port_name EXCEPT ![n] = text]
            /\ log' = ErrorLog("connect_port", TRUE)
            /\ UNCHANGED << port_connected, port_broken, port_out >>
    /\ UNCHANGED << config, meta, threads, lists, note_history, message_count, now, playback,
                    total_time, queues, active_notes, worker, parser, gui,
                    stop_timers, sent, removed, session >>

\* connect_port(port_num) with port_name = portN_combo.currentText();
\* opens tells whether mido.open_output(port_name) returns a handle or raises
\* (the backend decides, also for a device the other port holds open)
connect_port(n, text, opens) ==
    /\ GuiIdle
    /\ IF text = ""
       THEN /\ ops' = [ops EXCEPT !.port = @ + 1, !.port_call = "nothing"]
            /\ UNCHANGED << ports, log >>
       ELSE IF opens
       THEN /\ ops' = [ops EXCEPT !.port = @ + 1, !.port_call = "opened"]
            /\ port_out' = [port_out EXCEPT ![n] = text]
            /\ port_connected' = [port_connected EXCEPT ![n] = TRUE]
            /\ port_name' = [port_name EXCEPT ![n] = text]
            /\ port_broken' = [port_broken EXCEPT ![n] = FALSE]
            /\ UNCHANGED log
       ELSE /\ ops' = [ops EXCEPT !.port = @ + 1, !.port_call = "open_failed"]
            /\ log' = ErrorLog("connect_port", TRUE)
            /\ UNCHANGED ports
    /\ UNCHANGED << config, meta, threads, lists, note_history, message_count, now, playback,
                    total_time, queues, active_notes, worker, parser, gui,
                    stop_timers, sent, removed, session >>

\* disconnect_port(port_num); closes tells whether portN_out.close() returns
\* or raises
disconnect_port(n, closes) ==
    /\ GuiIdle
    /\ IF ~port_connected[n]
       THEN /\ ops' = [ops EXCEPT !.port = @ + 1, !.port_call = "nothing"]
            /\ UNCHANGED << ports, log >>
       ELSE IF closes
       THEN /\ ops' = [ops EXCEPT !.port = @ + 1, !.port_call = "closed"]
            /\ port_connected' = [port_connected EXCEPT ![n] = FALSE]
            /\ UNCHANGED << port_broken, port_name, port_out, log >>
       ELSE /\ ops' = [ops EXCEPT !.port = @ + 1, !.port_call = "close_failed"]
            /\ log' = ErrorLog("disconnect_port", TRUE)
            /\ UNCHANGED ports
    /\ UNCHANGED << config, meta, threads, lists, note_history, message_count, now, playback,
                    total_time, queues, active_notes, worker, parser, gui,
                    stop_timers, sent, removed, session >>

\* toggle_port_connection(port_num)
toggle_port_connection(n, text, ok) ==
    IF ~port_connected[n] THEN connect_port(n, text, ok) ELSE disconnect_port(n, ok)

(* ---------------------------- the playlist ----------------------------- *)
\* what add_files, remove_file, ... leave alone
ListFrame ==
    UNCHANGED << config, meta, threads, tracking, now, playback, total_time,
                 queues, active_notes, ports, worker, parser, stop_timers,
                 sent, removed >>

\* the user's call is counted; loads tells whether it starts a file
ListOp(loads) ==
    /\ ops' = [ops EXCEPT !.list = @ + 1,
                          !.load = IF loads THEN @ + 1 ELSE @,
                          !.stops_in_a_row = 0]
    /\ session' = [session EXCEPT !.resumed = FALSE]

\* what QFileDialog.getOpenFileNames can return: up to MaxSelection files,
\* each once
Selections ==
    { fs \in UNION { [1 .. n -> Files] : n \in 1 .. MaxSelection } :
        \A i, j \in 1 .. Len(fs) : i # j => fs[i] # fs[j] }

\* the rows of the file list, counted from 0 (the playlist holds a file once)
Rows == 0 .. (Cardinality(Files) - 1)

InList(list, f) == \E i \in 1 .. Len(list) : list[i] = f

\* add_files: for file in files: if file not in self.playlist: append
RECURSIVE AppendNew(_, _)
AppendNew(list, files) ==
    IF files = << >> THEN list
    ELSE AppendNew(IF InList(list, Head(files)) THEN list
                   ELSE Append(list, Head(files)),
                   Tail(files))

\* self.playlist.pop(index), index counted from 0
Pop(list, index) == SubSeq(list, 1, index) \o SubSeq(list, index + 2, Len(list))

\* self.playlist[index], index counted from 0
ItemAt(list, index) == list[index + 1]

\* play_current_file's condition
ValidIndex(list, index) == index >= 0 /\ index < Len(list)

\* play_current_file() with the index given: load_and_play_midi is entered
\* (its first statement calls stop_playback()), or nothing happens
play_current_file(index) ==
    /\ gui' = IF ValidIndex(playlist, index)
              THEN [pc |-> "stop", ret |-> "load", file |-> ItemAt(playlist, index)]
              ELSE gui
    /\ ListOp(ValidIndex(playlist, index))

\* add_files() with the files the dialog returned
add_files(files) ==
    /\ GuiIdle
    /\ playlist' = AppendNew(playlist, files)
    /\ ListOp(FALSE)
    /\ UNCHANGED << current_file_index, gui >>
    /\ ListFrame

\* remove_file() with the item of row index selected (the rows show the
\* base names of the playlist's files, which are distinct): the file is
\* popped, and if it is the current one stop_playback() is called
remove_file(index) ==
    /\ GuiIdle
    /\ ValidIndex(playlist, index)
    /\ playlist' = Pop(playlist, index)
    /\ gui' = IF current_file_index = index
              THEN [gui EXCEPT !.pc = "stop", !.ret = "remove"]
              ELSE gui
    /\ ListOp(FALSE)
    /\ UNCHANGED current_file_index
    /\ ListFrame

\* remove_file after its stop_playback(): self.current_file_index = -1
RemoveDone ==
    /\ gui.pc = "remove"
    /\ current_file_index' = -1
    /\ gui' = [gui EXCEPT !.pc = "idle"]
    /\ UNCHANGED << playlist, ops, session >>
    /\ ListFrame

\* clear_files() is entered: its first statement calls stop_playback()
clear_files ==
    /\ GuiIdle
    /\ gui' = [gui EXCEPT !.pc = "stop", !.ret = "clear"]
    /\ ListOp(FALSE)
    /\ UNCHANGED lists
    /\ ListFrame

\* clear_files after its stop_playback(): self.playlist.clear() and
\* self.current_file_index = -1
ClearDone ==
    /\ gui.pc = "clear"
    /\ playlist' = << >>
    /\ current_file_index' = -1
    /\ gui' = [gui EXCEPT !.pc = "idle"]
    /\ UNCHANGED << ops, session >>
    /\ ListFrame

\* on_file_double_clicked(item) with the item of row index
on_file_double_clicked(index) ==
    /\ GuiIdle
    /\ ValidIndex(playlist, index)
    /\ current_file_index' = index
    /\ play_current_file(index)
    /\ UNCHANGED playlist
    /\ ListFrame

\* toggle_play_pause(): a warning when the playlist is empty; the current
\* file (the first one when there is none) is started when nothing plays;
\* pause_playback() otherwise
toggle_play_pause ==
    /\ GuiIdle
    /\ IF playlist = << >>
       THEN /\ ListOp(FALSE)
            /\ UNCHANGED << lists, gui >>
            /\ ListFrame
       ELSE IF ~is_playing
       THEN /\ current_file_index' =
                   IF current_file_index = -1 THEN 0 ELSE current_file_index
            /\ play_current_file(current_file_index')
            /\ UNCHANGED playlist
            /\ ListFrame
       ELSE pause_playback

\* play_previous()
play_previous ==
    /\ GuiIdle
    /\ IF playlist # << >>
       THEN /\ current_file_index' =
                   IF current_file_index <= 0 THEN Len(playlist) - 1
                   ELSE current_file_index - 1
            /\ play_current_file(current_file_index')
       ELSE /\ ListOp(FALSE)
            /\ UNCHANGED << current_file_index, gui >>
    /\ UNCHANGED playlist
    /\ ListFrame

\* play_next()
play_next ==
    /\ GuiIdle
    /\ IF playlist # << >>
       THEN /\ current_file_index' =
                   IF current_file_index >= Len(playlist) - 1 THEN 0
                   ELSE current_file_index + 1
            /\ play_current_file(current_file_index')
       ELSE /\ ListOp(FALSE)
            /\ UNCHANGED << current_file_index, gui >>
    /\ UNCHANGED playlist
    /\ ListFrame

(* ---------------------------- parse_worker ---------------------------- *)
\* parse_worker: parse_queue.get() and the loop that builds `events`
\* (see ParseEvents)
ParseGet ==
    /\ parser.pc = "idle"
    /\ parse_queue # << >>
    /\ LET events == FileEvents(Head(parse_queue))
       IN  parser' = [pc |-> IF events = << >> THEN "idle" ELSE "put",
                      events |-> events]
    /\ parse_queue' = Tail(parse_queue)
    /\ UNCHANGED << config, meta, threads, lists, tracking, now, playback, total_time, midi_event_queue, active_notes,
                    ports, worker, gui, stop_timers, sent, removed, ops, session >>

\* ParsePut with a put that gives up on a full queue (put_nowait, the Full
\* exception swallowed): the event is dropped
ParsePutNoWait ==
    /\ parser.pc = "put"
    /\ midi_event_queue' = IF Len(midi_event_queue) < maxsize
                           THEN Append(midi_event_queue, Head(parser.events))
                           ELSE midi_event_queue
    /\ parser' = IF Len(parser.events) = 1
                 THEN [pc |-> "idle", events |-> << >>]
                 ELSE [parser EXCEPT !.events = Tail(@)]
    /\ UNCHANGED << config, meta, threads, lists, tracking, now, playback, total_time, parse_queue,
                    active_notes, ports, worker, gui, stop_timers, sent, removed,
                    ops, session >>

\* parse_worker: one self.midi_event_queue.put((event_time, msg)) of the
\* for loop; put() blocks while the queue is full
ParsePut ==
    /\ parser.pc = "put"
    /\ Len(midi_event_queue) < maxsize
    /\ midi_event_queue' = Append(midi_event_queue, Head(parser.events))
    /\ parser' = IF Len(parser.events) = 1
                 THEN [pc |-> "idle", events |-> << >>]
                 ELSE [parser EXCEPT !.events = Tail(@)]
    /\ UNCHANGED << config, meta, threads, lists, tracking, now, playback, total_time, parse_queue, active_notes,
                    ports, worker, gui, stop_timers, sent, removed, ops, session >>

(* ----------------------------- midi_worker ----------------------------- *)
At(w, pc) == w \in DOMAIN worker /\ worker[w].pc = pc

\* while not stop_event.is_set(): if not self.is_playing or
\* self.playback_complete: sleep; continue.  With stop_event set the
\* function returns and the thread ends.
WorkerCheck(w) ==
    /\ At(w, "check")
    /\ IF stop_event
       THEN worker' = [worker EXCEPT ![w].pc = "done"]
       ELSE IF ~is_playing \/ playback_complete
       THEN UNCHANGED worker
       ELSE worker' = [worker EXCEPT ![w].pc = "wait"]
    /\ UNCHANGED << config, meta, threads, lists, tracking, now, playback, total_time, queues, active_notes, ports,
                    parser, gui, stop_timers, sent, removed, ops, session >>

\* self.pause_event.wait(); start_time defaulted; elapsed_time = time.time()
\* - self.start_time; event_processed = False; batch_count = 0
WorkerClock(w) ==
    /\ At(w, "wait")
    /\ pause_event
    /\ start_time' = IF start_time = None THEN now ELSE start_time
    /\ worker' = [worker EXCEPT ![w].pc = "loop",
                                ![w].elapsed_time = now - start_time',
                                ![w].event_processed = FALSE,
                                ![w].batch_count = 0]
    /\ UNCHANGED << config, meta, threads, lists, tracking, now, is_playing, is_paused, playback_complete, pause_event,
                    total_time, queues, active_notes, ports, parser, gui,
                    stop_timers, sent, removed, ops, session >>

\* check_playback_complete(elapsed_time, event_processed): the condition
Completes(elapsed_time, event_processed) ==
    /\ total_time > 0
    /\ elapsed_time >= total_time
    /\ midi_event_queue = << >>
    /\ ~event_processed

\* the batch loop's condition holds and the head is due
HeadDue(w) ==
    /\ midi_event_queue # << >>
    /\ is_playing
    /\ ~playback_complete
    /\ worker[w].batch_count < batch_size
    /\ Head(midi_event_queue).time <= worker[w].elapsed_time

\* The batch loop's condition and event_time, msg = midi_event_queue.queue[0]:
\* a due head is kept in msg for the get().  Otherwise the loop ends (its
\* condition fails, or the head is not due and it breaks), and
\* check_playback_complete and the sleep follow.
WorkerLoop(w) ==
    /\ At(w, "loop")
    /\ IF HeadDue(w)
       THEN /\ worker' = [worker EXCEPT ![w].pc = "get",
                                        ![w].msg = Head(midi_event_queue)]
            /\ UNCHANGED << playback_complete, stop_timers >>
       ELSE /\ IF /\ Completes(worker[w].elapsed_time, worker[w].event_processed)
                  /\ ~playback_complete
               THEN /\ playback_complete' = TRUE
                    /\ stop_timers' = stop_timers + 1
               ELSE UNCHANGED << playback_complete, stop_timers >>
            /\ worker' = [worker EXCEPT ![w] = NextTick(@)]
    /\ UNCHANGED << config, meta, threads, lists, tracking, now, is_playing, is_paused, pause_event, start_time,
                    total_time, queues, active_notes, ports, parser, gui,
                    sent, removed, ops, session >>

\* midi_worker's argument: thread = Thread(target=self.midi_worker, args=(i,))
thread_id(w) == w % num_midi_threads

\* self.midi_event_queue.get() (blocks while the queue is empty; what it
\* returns is dropped), event_processed = True, batch_count += 1; a meta
\* message (the one peeked) goes to handle_meta_message if thread_id == 0,
\* and the loop continues
WorkerGet(w) ==
    /\ At(w, "get")
    /\ midi_event_queue # << >>
    /\ midi_event_queue' = Tail(midi_event_queue)
    /\ removed' = removed \cup {Head(midi_event_queue)}
    /\ worker' = [worker EXCEPT
                    ![w].pc = IF is_meta(worker[w].msg) THEN "loop" ELSE "send",
                    ![w].msg = IF is_meta(worker[w].msg) THEN NoMsg ELSE @,
                    ![w].event_processed = TRUE,
                    ![w].batch_count = @ + 1]
    /\ LET st == IF is_meta(worker[w].msg) /\ thread_id(w) = 0
                 THEN handle_meta_message(
                          MetaState(current_tempo, current_time_signature,
                                    current_key), worker[w].msg)
                 ELSE MetaState(current_tempo, current_time_signature,
                                current_key)
       IN  /\ current_tempo' = st.current_tempo
           /\ current_time_signature' = st.current_time_signature
           /\ current_key' = st.current_key
    /\ UNCHANGED << config, threads, lists, tracking, now, playback, total_time, parse_queue, active_notes,
                    ports, parser, gui, stop_timers, sent, ops, session >>

\* WorkerSend with a send_midi_message that has no try block: the raise of
\* a port's send() reaches midi_worker's except branch, which logs it and
\* starts the next tick
WorkerSendUncaught(w) ==
    /\ At(w, "send")
    /\ LET r == PortSend(sent, worker[w].msg)
           count == worker[w].local_event_count + 1
       IN  /\ sent' = r.sent
           /\ log' = IF r.raised THEN ErrorLog("midi_worker", FALSE) ELSE log
           /\ UNCHANGED message_count
           /\ worker' = IF r.raised
                        THEN [worker EXCEPT ![w] = NextTick(@)]
                        ELSE [worker EXCEPT ![w].pc = "track",
                                            ![w].local_event_count = count]
    /\ UNCHANGED << config, meta, threads, lists, note_history, now, playback, total_time, queues,
                    active_notes, ports, parser, gui, stop_timers, removed, ops,
                    session >>

\* self.send_midi_message(msg), whose except branch logs a raise, and
\* local_event_count += 1 with its flush into message_count
WorkerSend(w) ==
    /\ At(w, "send")
    /\ LET r == PortSend(sent, worker[w].msg)
           count == worker[w].local_event_count + 1
       IN  /\ sent' = r.sent
           /\ log' = IF r.raised THEN ErrorLog("send_midi_message", FALSE) ELSE log
           /\ message_count' =
                  IF count >= FlushCount THEN message_count + count ELSE message_count
           /\ worker' = [worker EXCEPT
                            ![w].pc = "track",
                            ![w].local_event_count =
                                IF count >= FlushCount THEN 0 ELSE count]
    /\ UNCHANGED << config, meta, threads, lists, note_history, now, playback, total_time, queues,
                    active_notes, ports, parser, gui, stop_timers, removed, ops,
                    session >>

\* self.handle_note_event(msg), then back to the loop condition
WorkerTrack(w) ==
    /\ At(w, "track")
    /\ LET r == handle_note_event(active_notes, note_history, worker[w].msg, now)
       IN  /\ active_notes' = r.active_notes
           /\ note_history' = r.note_history
    /\ worker' = [worker EXCEPT ![w].pc = "loop", ![w].msg = NoMsg]
    /\ UNCHANGED << config, meta, threads, lists, message_count, log, now, playback, total_time, queues,
                    ports, parser, gui, stop_timers, sent, removed, ops, session >>

(* --------------------------- restart_threads --------------------------- *)
\* the midi_worker threads that init_threads starts in a restart
RestartedWorkers == num_midi_threads .. (2 * num_midi_threads - 1)

\* a midi_worker that is blocked: in pause_event.wait() while the event is
\* clear, or in midi_event_queue.get() while the queue is empty
Blocked(w) ==
    \/ worker[w].pc = "wait" /\ ~pause_event
    \/ worker[w].pc = "get" /\ midi_event_queue = << >>

\* restart_threads is entered: self.stop_event.set(), and time.sleep(0.1)
\* begins
UserRestart ==
    /\ GuiIdle
    /\ stop_event' = TRUE
    /\ gui' = [gui EXCEPT !.pc = "restart"]
    /\ ops' = [ops EXCEPT !.restart = @ + 1, !.stops_in_a_row = 0]
    /\ session' = [session EXCEPT !.resumed = FALSE]
    /\ UNCHANGED << config, meta, lists, tracking, parse_threads, note_threads,
                    now, playback, total_time, queues, active_notes, ports,
                    worker, parser, stop_timers, sent, removed >>

\* parse_worker's parse_queue.get(timeout=0.1) raises Empty, and its
\* `while not self.stop_event.is_set()` finds the event set: the thread ends
ParseExit ==
    /\ parser.pc = "idle"
    /\ parse_queue = << >>
    /\ stop_event
    /\ parser' = [parser EXCEPT !.pc = "done"]
    /\ parse_threads' = parse_threads - 1
    /\ UNCHANGED << config, meta, lists, tracking, stop_event, note_threads,
                    now, playback, total_time, queues, active_notes, ports,
                    worker, gui, stop_timers, sent, removed, ops, session >>

\* note_worker's `while not self.stop_event.is_set()` with the event set:
\* the thread ends
NoteExit ==
    /\ note_threads > 0
    /\ stop_event
    /\ note_threads' = note_threads - 1
    /\ UNCHANGED << config, meta, lists, tracking, stop_event, parse_threads,
                    now, playback, total_time, queues, active_notes, ports,
                    worker, parser, gui, stop_timers, sent, removed, ops,
                    session >>

\* restart_threads after its time.sleep(0.1): self.stop_event.clear() and
\* init_threads(), which makes new queue objects and starts new threads.
\* The sleep is long enough for every thread that is not blocked to reach
\* its loop test and end.  A thread blocked in get() or put() stays blocked
\* on the queue object it was called on; a thread blocked in
\* pause_event.wait() stays where it is.
RestartInit ==
    /\ gui.pc = "restart"
    /\ \A w \in DOMAIN worker : worker[w].pc = "done" \/ Blocked(w)
    /\ parser.pc = "done" \/ (parser.pc = "put" /\ Len(midi_event_queue) >= maxsize)
    /\ note_threads = 0
    /\ stop_event' = FALSE
    /\ clear_queues
    /\ worker' = [w \in DOMAIN worker |->
                     IF worker[w].pc = "get"
                     THEN [worker[w] EXCEPT !.pc = "blocked"] ELSE worker[w]]
                  @@ [w \in RestartedWorkers |-> IdleWorker]
    /\ parser' = IF parser.pc = "done" THEN [pc |-> "idle", events |-> << >>]
                 ELSE [parser EXCEPT !.pc = "blocked"]
    /\ parse_threads' = parse_threads + 1
    /\ note_threads' = note_threads + 1
    /\ gui' = [gui EXCEPT !.pc = "idle"]
    /\ UNCHANGED << config, meta, lists, tracking, now, playback, total_time,
                    active_notes, ports, stop_timers, sent, removed, ops,
                    session >>

(* ----------------------------- environment ----------------------------- *)
\* the wall clock advances
Tick ==
    /\ now < MaxTime
    /\ now' = now + 1
    /\ session' = [session EXCEPT !.resumed = FALSE]
    /\ UNCHANGED << config, meta, threads, lists, tracking, playback, total_time, queues, active_notes, ports, worker,
                    parser, gui, stop_timers, sent, removed, ops >>

\* the device behind a connected port stops accepting messages: from now on
\* its send() raises
DeviceFault(p) ==
    /\ port_connected[p] /\ ~port_broken[p]
    /\ port_broken' = [port_broken EXCEPT ![p] = TRUE]
    /\ UNCHANGED << config, meta, threads, lists, tracking, now, playback, total_time, queues, active_notes,
                    port_connected, port_name, port_out, worker, parser, gui, stop_timers, sent,
                    removed, ops, session >>

(* ---------------------------- specification ---------------------------- *)
\* the steps of the threads, whatever the user does
Engine ==
    \/ TimerFire
    \/ StopPlayback
    \/ StopActiveClear
    \/ LoadStart
    \/ LoadPut
    \/ ParseGet
    \/ ParsePut
    \/ \E w \in Workers : WorkerCheck(w)
    \/ \E w \in Workers : WorkerClock(w)
    \/ \E w \in Workers : WorkerLoop(w)
    \/ \E w \in Workers : WorkerGet(w)
    \/ \E w \in Workers : WorkerSend(w)
    \/ \E w \in Workers : WorkerTrack(w)
    \/ Tick

\* the user only starts files
Next ==
    \/ Engine
    \/ \E f \in Files : ops.load < MaxLoads /\ UserLoad(f)

Spec == Init /\ [][Next]_vars

\* the user starts a file and presses pause / resume
NextPause ==
    \/ Engine
    \/ \E f \in Files : ops.load < SessionLoads /\ UserLoad(f)
    \/ ops.pause < MaxPauses /\ pause_playback

SpecPause == Init /\ [][NextPause]_vars

\* the user starts a file and presses stop
NextStop ==
    \/ Engine
    \/ \E f \in Files : ops.load < SessionLoads /\ UserLoad(f)
    \/ ops.stop < MaxStops /\ UserStop

SpecStop == Init /\ [][NextStop]_vars

\* the user starts a file and presses stop, and devices fail
NextFault ==
    \/ NextStop
    \/ \E p \in Ports : DeviceFault(p)

SpecFault == Init /\ [][NextFault]_vars

\* One session under fair scheduling: every thread that can take a step
\* eventually takes one (the interpreter switches threads), the Qt event
\* loop runs the GUI thread's pending handler and timer, and time passes.
NextLive ==
    \/ Engine
    \/ \E f \in Files : ops.load < SessionLoads /\ UserLoad(f)

Fairness ==
    /\ WF_vars(TimerFire)
    /\ WF_vars(StopPlayback)
    /\ WF_vars(StopActiveClear)
    /\ WF_vars(LoadStart)
    /\ WF_vars(LoadPut)
    /\ WF_vars(ParseGet)
    /\ WF_vars(ParsePut)
    /\ WF_vars(Tick)
    /\ \A w \in Workers :
           /\ WF_vars(WorkerCheck(w))
           /\ WF_vars(WorkerClock(w))
           /\ WF_vars(WorkerLoop(w))
           /\ WF_vars(WorkerGet(w))
           /\ WF_vars(WorkerSend(w))
           /\ WF_vars(WorkerTrack(w))

SpecLive == Init /\ [][NextLive]_vars /\ Fairness

\* the user starts a file, and devices fail
NextSendFault ==
    \/ NextLive
    \/ \E p \in Ports : DeviceFault(p)

SpecSendFault == Init /\ [][NextSendFault]_vars

\* file "A" has any content, and the dense mode and the filter check box
\* are as the user has set them (no midi_worker step is part of this
\* specification: the worker actions model the standard mode)
InitParse ==
    /\ Constructed
    /\ Connected
    /\ black_midi_mode \in BOOLEAN
    /\ filter_zero_velocity_check \in BOOLEAN
    /\ midi_files \in { [StandardFiles EXCEPT !["A"] = c] : c \in FileContents }
    /\ maxsize = QueueMaxSize

\* the user starts a file and parse_worker fills the queue, before any
\* midi_worker runs
NextParse ==
    \/ \E f \in Files : ops.load < SessionLoads /\ UserLoad(f)
    \/ StopPlayback
    \/ StopActiveClear
    \/ LoadStart
    \/ LoadPut
    \/ ParseGet
    \/ ParsePut

SpecParse == InitParse /\ [][NextParse]_vars

\* Init with the queue's capacity scaled down from 100000 to MaxQueue, so
\* that a file of the model's size fills the queue
InitFull ==
    /\ Constructed
    /\ Connected
    /\ StandardSettings
    /\ maxsize = MaxQueue

\* one session played through a queue that fills up
SpecFull == InitFull /\ [][NextLive]_vars

\* Init with file "A" striking its note twice
InitRetrigger ==
    /\ Constructed
    /\ Connected
    /\ black_midi_mode = FALSE
    /\ filter_zero_velocity_check = TRUE
    /\ midi_files = [StandardFiles EXCEPT !["A"] = RetriggerFile]
    /\ maxsize = QueueMaxSize

\* one session of a file that re-triggers a note
SpecRetrigger == InitRetrigger /\ [][NextLive]_vars

\* Init with file "A" changing the tempo
InitMeta ==
    /\ Constructed
    /\ Connected
    /\ black_midi_mode = FALSE
    /\ filter_zero_velocity_check = TRUE
    /\ midi_files = [StandardFiles EXCEPT !["A"] = MetaFile]
    /\ maxsize = QueueMaxSize

\* one session of a file with meta events, under fair scheduling
SpecMeta == InitMeta /\ [][NextLive]_vars /\ Fairness

\* the user starts a file, presses pause / resume and restarts the threads;
\* the threads of the restart run as those of __init__ do
NextRestart ==
    \/ Engine
    \/ \E f \in Files : ops.load < SessionLoads /\ UserLoad(f)
    \/ ops.pause < MaxPauses /\ pause_playback
    \/ ops.restart < MaxRestarts /\ UserRestart
    \/ RestartInit
    \/ ParseExit
    \/ NoteExit
    \/ \E w \in RestartedWorkers : WorkerCheck(w)
    \/ \E w \in RestartedWorkers : WorkerClock(w)
    \/ \E w \in RestartedWorkers : WorkerLoop(w)
    \/ \E w \in RestartedWorkers : WorkerGet(w)
    \/ \E w \in RestartedWorkers : WorkerSend(w)
    \/ \E w \in RestartedWorkers : WorkerTrack(w)

\* a run with a restart, through a queue that fills up
SpecRestart == InitFull /\ [][NextRestart]_vars

\* the note_history that earlier sessions have left (nothing clears it): n
\* ON entries of note 62, struck with a velocity that grew by one each time,
\* the newest first
EarlierHistory(n) == [i \in 1 .. n |-> OnEntry(62, n + 1 - i)]

\* Init with a note_history that is full, or one entry short of it
InitHistory ==
    /\ Stopped
    /\ note_history \in {EarlierHistory(HistoryMaxLen - 1),
                          EarlierHistory(HistoryMaxLen)}
    /\ playlist = << >>
    /\ current_file_index = -1
    /\ Connected
    /\ StandardSettings
    /\ maxsize = QueueMaxSize

\* one session played on top of a long note_history
SpecHistory == InitHistory /\ [][NextLive]_vars

\* the user works the file list and the play / previous / next buttons; the
\* GUI thread runs the handlers, and no file gets as far as being played
NextPlaylist ==
    \/ \E files \in Selections : ops.list < MaxListOps /\ add_files(files)
    \/ \E index \in Rows :
           ops.list < MaxListOps /\ remove_file(index)
    \/ ops.list < MaxListOps /\ clear_files
    \/ \E index \in Rows :
           ops.list < MaxListOps /\ on_file_double_clicked(index)
    \/ ops.list < MaxListOps /\ ops.pause < MaxPauses /\ toggle_play_pause
    \/ ops.list < MaxListOps /\ play_previous
    \/ ops.list < MaxListOps /\ play_next
    \/ RemoveDone
    \/ ClearDone
    \/ StopPlayback
    \/ StopActiveClear
    \/ LoadStart
    \/ LoadPut

SpecPlaylist == Init /\ [][NextPlaylist]_vars

\* the state after __init__, the user's connect_port calls and an add_files
\* of the files "A" and "X"
InitControl ==
    /\ Stopped
    /\ note_history = << >>
    /\ playlist = << "A", "X" >>
    /\ current_file_index = -1
    /\ Connected
    /\ StandardSettings
    /\ maxsize = QueueMaxSize

\* the user works the play / previous / next buttons, pauses and stops,
\* while the threads run
NextControl ==
    \/ Engine
    \/ /\ ops.list < MaxListOps /\ ops.pause < MaxPauses
       /\ is_playing \/ ops.load < SessionLoads
       /\ toggle_play_pause
    \/ ops.list < MaxListOps /\ ops.load < SessionLoads /\ play_previous
    \/ ops.list < MaxListOps /\ ops.load < SessionLoads /\ play_next
    \/ ops.pause < MaxPauses /\ pause_playback
    \/ ops.stop < MaxStops /\ UserStop

SpecControl == InitControl /\ [][NextControl]_vars

\* init_config: no port is connected
Disconnected ==
    /\ port_connected = [p \in Ports |-> FALSE]
    /\ port_name = [p \in Ports |-> NoDevice]
    /\ port_out = [p \in Ports |-> NoDevice]

\* the state after __init__
InitPorts ==
    /\ Constructed
    /\ Disconnected
    /\ StandardSettings
    /\ maxsize = QueueMaxSize

\* the user only works the ports, and devices fail
NextPorts ==
    \/ \E n \in Ports, text \in ComboTexts, opens \in BOOLEAN :
           ops.port < MaxPortOps /\ connect_port(n, text, opens)
    \/ \E n \in Ports, closes \in BOOLEAN :
           ops.port < MaxPortOps /\ disconnect_port(n, closes)
    \/ \E n \in Ports, text \in ComboTexts, ok \in BOOLEAN :
           ops.port < MaxPortOps /\ toggle_port_connection(n, text, ok)
    \/ \E p \in Ports : DeviceFault(p)

SpecPorts == InitPorts /\ [][NextPorts]_vars

(* ------------------------------- claims -------------------------------- *)
\* a logged message that is an event of a file (not a message all_notes_off made)
IsEvent(m) == "idx" \in DOMAIN m

Count(seq, m) == Cardinality({i \in 1 .. Len(seq) : seq[i] = m})

\* a worker has taken event e for sending and has not sent it yet
InFlight(e) == \E w \in Workers : worker[w].pc \in {"get", "send"} /\ worker[w].msg = e

\* C1: while a session plays (not paused, not stopped), each non-meta event
\* put into midi_event_queue reaches every connected port exactly once: no
\* port gets an event twice, and an event that a worker's get() removed and
\* that no worker still holds has been sent to every connected port.
C1_ExactlyOnce ==
    (is_playing /\ ~is_paused) =>
        \A p \in Ports : port_connected[p] =>
            /\ \A i \in 1 .. Len(sent[p]) : Count(sent[p], sent[p][i]) = 1
            /\ \A e \in removed :
                   (~is_meta(e) /\ ~InFlight(e)) => Count(sent[p], e) = 1

\* C2: in the first session, the events a port has received are in the order
\* of their removal from the queue (their order in the file): no later
\* event precedes an earlier one.
C2_PortOrder ==
    (is_playing /\ ops.load = 1) =>
        \A p \in Ports : \A i, j \in 1 .. Len(sent[p]) :
            (i < j /\ IsEvent(sent[p][i]) /\ IsEvent(sent[p][j]))
                => sent[p][i].idx <= sent[p][j].idx

\* C3: at the instant of the resume, the elapsed playback time (time.time()
\* - start_time, what midi_worker computes) equals the elapsed time at the
\* moment of the pause.
C3_PauseNotCounted ==
    (session.resumed /\ is_playing /\ start_time # None)
        => now - start_time = session.elapsed_at_pause

\* C4: from pause_playback's pause until the resume, no step sends anything
\* to a port and none removes an event from midi_event_queue.
C4_PausedSilent ==
    [][(is_paused /\ is_paused')
         => (sent' = sent /\ Len(midi_event_queue') >= Len(midi_event_queue))]_vars

\* C5: when the second of two stop_playback() calls in a row returns,
\* midi_event_queue and active_notes are empty and the clock is reset
\* (start_time None, is_playing and is_paused false).
C5_StopIdempotent ==
    [][(gui.pc = "stop_active" /\ gui'.pc = "idle" /\ ops.stops_in_a_row >= 2)
         => /\ midi_event_queue' = << >>
            /\ active_notes' = << >>
            /\ start_time' = None
            /\ ~is_playing' /\ ~is_paused']_vars

\* C6: once stop_playback() has made its all-notes-off broadcast, and until
\* another session starts, nothing more is sent to a port and no note is
\* added to active_notes.
C6_NoSendAfterStop ==
    [][(~is_playing /\ ~is_playing' /\ gui.pc # "stop")
         => (sent' = sent /\ Len(active_notes') <= Len(active_notes))]_vars

\* C8: during the session of one file, midi_event_queue holds, and the ports
\* receive, no event of another file.
C8_NoStaleEvents ==
    is_playing =>
        /\ \A i \in 1 .. Len(midi_event_queue) :
               midi_event_queue[i].file = session.file
        /\ \A p \in Ports : \A i \in 1 .. Len(sent[p]) :
               IsEvent(sent[p][i]) => sent[p][i].file = session.file

\* C9: after a session has been started, the steps of a load_and_play_midi
\* call whose file MidiFile cannot parse change none of is_playing,
\* is_paused, start_time, midi_event_queue and active_notes, and send nothing.
C9_FailedLoadLeavesState ==
    [][(/\ session.file # ""
        /\ ~Parses(gui.file) /\ (gui.ret = "load" \/ gui.pc = "load")
        /\ gui' # gui)
         => UNCHANGED << is_playing, is_paused, start_time, midi_event_queue,
                         active_notes, sent >>]_vars

\* the message log of port p grows by exactly msgs
Receives(p, msgs) == sent'[p] = sent[p] \o msgs

\* C7: every stop_playback() sends, to every connected port whose device
\* accepts messages, a control_change 123 on each of the 16 channels and a
\* note_off for every note in active_notes, and when it returns active_notes
\* is empty.
C7_StopBroadcast ==
    [][/\ (gui.pc = "stop" /\ gui'.pc = "stop_active")
            => \A p \in Ports : (port_connected[p] /\ ~port_broken[p])
                   => Receives(p, AllNotesOffMessages(active_notes))
       /\ (gui.pc = "stop_active" /\ gui'.pc # "stop_active")
            => active_notes' = << >>]_vars

\* every event of the running session has been dispatched and the elapsed
\* time has reached total_time
SessionOver ==
    /\ is_playing /\ ~is_paused /\ start_time # None
    /\ gui.pc = "idle" /\ parse_queue = << >> /\ parser.pc = "idle"
    /\ midi_event_queue = << >>
    /\ \A w \in Workers : worker[w].pc # "send"
    /\ now - start_time >= total_time

\* C10: playback_complete is set only by a worker tick that finds the queue
\* empty, elapsed >= total_time and no event processed in the tick; a session
\* whose events are all dispatched and whose elapsed time has reached
\* total_time is eventually marked complete; and a session marked complete
\* eventually becomes Stopped.
C10_Completion ==
    /\ [][(~playback_complete /\ playback_complete')
            => \E w \in Workers :
                   /\ worker[w].pc = "loop" /\ worker'[w].pc = "check"
                   /\ midi_event_queue = << >>
                   /\ worker[w].elapsed_time >= total_time
                   /\ ~worker[w].event_processed]_vars
    /\ (SessionOver ~> playback_complete)
    /\ (playback_complete ~> ~is_playing)

\* the elapsed playback time of the running session
Elapsed == now - start_time

\* event e belongs to the running session
OfSession(e) == is_playing /\ start_time # None /\ e.file = session.file

\* C11: a midi_worker sends an event of the running session only when the
\* event's abs_time is <= the session's elapsed playback time, and its get()
\* removes the head of the queue only when that head is due; also when the
\* worker computed its elapsed_time before the session was started.
C11_DueOnly ==
    [][\A w \in Workers :
          /\ (worker[w].pc = "send" /\ worker'[w].pc = "track"
                  /\ OfSession(worker[w].msg))
                => worker[w].msg.time <= Elapsed
          /\ (worker[w].pc = "get" /\ worker'[w].pc # "get"
                  /\ OfSession(Head(midi_event_queue)))
                => Head(midi_event_queue).time <= Elapsed]_vars

\* a connected port's send() raises
SendRaises == \E p \in Ports : port_connected[p] /\ port_broken[p]

\* the note tracker has taken in event m
Tracked(notes, m) ==
    IF m.type = "note_on" /\ m.velocity > 0 THEN HasNote(notes, m.note)
    ELSE IF m.type \in {"note_on", "note_off"} THEN ~HasNote(notes, m.note)
    ELSE TRUE

C13_OneSinkPerDevice ==
    (port_connected[1] /\ port_connected[2]) => port_name[1] # port_name[2]

\* a step of a connect_port call in which mido.open_output raised
OpenFails == ops'.port = ops.port + 1 /\ ops'.port_call = "open_failed"

\* C14: when opening the device fails in connect_port(n), an error entry is
\* logged and port_connected, port_name and port_out keep their values, for
\* port n and for the other port.
C14_FailedConnectChangesNothing ==
    [][OpenFails
         => /\ log' = ErrorLog("connect_port", TRUE)
            /\ UNCHANGED << port_connected, port_name, port_out >>]_vars

\* C14 witness: an open has failed and was logged while a port was connected
\* under a device name
C14_Witness ==
    /\ ops.port_call = "open_failed"
    /\ log = ErrorLog("connect_port", TRUE)
    /\ \E p \in Ports : port_connected[p] /\ port_name[p] \in Devices

\* a sequence of events is in ascending order of abs_time
SortedByTime(events) ==
    \A i, j \in 1 .. Len(events) : i < j => events[i].time <= events[j].time

\* how many messages of msgs satisfy Test
CountMsgs(msgs, Test(_)) == Cardinality({i \in 1 .. Len(msgs) : Test(msgs[i])})

IsInputEvent(m) == m.type # "end_of_track"
IsZeroNoteOn(m) == m.type = "note_on" /\ m.velocity = 0

\* C15: once parse_worker has taken the running session's file, the events
\* it has put and still has to put into midi_event_queue are sorted by
\* abs_time ascending, and they are as many as the file's events (its
\* end_of_track not counted) less the velocity-0 note_on events when the
\* zero-velocity filter is checked.
C15_ParseSortedComplete ==
    (session.file # "" /\ gui.pc = "idle" /\ parse_queue = << >>)
        => LET input == midi_files[session.file]
               out == midi_event_queue \o parser.events
           IN  /\ SortedByTime(out)
               /\ Len(out) = CountMsgs(input, IsInputEvent)
                                - (IF filter_zero_velocity_check
                                   THEN CountMsgs(input, IsZeroNoteOn) ELSE 0)

\* midi_event_queue is full
Full == Len(midi_event_queue) = maxsize

\* C16: midi_event_queue never holds more than its capacity; while it is
\* full, parse_worker stays in its put(); and parse_worker drops nothing:
\* it takes every event of the file it parses and appends them to the queue
\* one by one in their order.
C16_QueueBounded ==
    [][/\ Len(midi_event_queue) <= maxsize
       /\ Len(midi_event_queue') <= maxsize
       /\ (parser.pc = "put" /\ Full) => parser' = parser
       /\ (parser.pc = "idle" /\ parser' # parser)
             => parser'.events = FileEvents(Head(parse_queue))
       /\ (parser.pc = "put" /\ parser' # parser)
             => /\ midi_event_queue' =
                       Append(midi_event_queue, Head(parser.events))
                /\ parser'.events = Tail(parser.events)]_vars

\* C16 witness: the queue is full while parse_worker still has an event of
\* the running session's file to put
C16_Witness ==
    /\ Full
    /\ parser.pc = "put"
    /\ is_playing
    /\ Head(parser.events).file = session.file

\* the notes of the files
Notes == {60, 62}

\* the places in port 1's log of the note events of the session for note n
DispatchesOf(n) ==
    {i \in 1 .. Len(sent[1]) :
        /\ IsEvent(sent[1][i])
        /\ sent[1][i].type \in {"note_on", "note_off"}
        /\ sent[1][i].note = n}

\* the last event dispatched for note n is a note_on with velocity > 0
LastIsNoteOn(n) ==
    /\ DispatchesOf(n) # {}
    /\ LET last == CHOOSE i \in DispatchesOf(n) : \A j \in DispatchesOf(n) : j <= i
       IN  sent[1][last].type = "note_on" /\ sent[1][last].velocity > 0

\* C18: while a session plays and no worker is between the send of an event
\* and its handle_note_event, active_notes holds exactly the notes whose
\* last dispatched event is a note_on with velocity > 0.
C18_TrackerFollowsDispatch ==
    (is_playing /\ \A w \in Workers : worker[w].pc # "track")
        => \A n \in Notes : HasNote(active_notes, n) <=> LastIsNoteOn(n)

\* how many note_on events with velocity > 0 port 1 has received for note n
DispatchedOn(n) ==
    Cardinality({i \in DispatchesOf(n) :
                    sent[1][i].type = "note_on" /\ sent[1][i].velocity > 0})

\* how many note_history entries record a duration for note n
Resolved(n) ==
    Cardinality({i \in 1 .. Len(note_history) :
                    note_history[i].type = "OFF" /\ note_history[i].note = n})

\* no worker holds an event it has taken and not yet sent and tracked
NothingInFlight == \A w \in Workers : worker[w].pc \notin {"get", "send", "track"}

\* C19: in the first session and after it, once a note is no longer in
\* active_notes (its note_off was dispatched, or playback was stopped) and
\* no event is in flight, note_history holds exactly one OFF entry, with the
\* resolved duration, for every note_on with velocity > 0 dispatched for it.
C19_OneDurationPerNoteOn ==
    (ops.load = 1 /\ gui.pc = "idle" /\ NothingInFlight)
        => \A n \in Notes : ~HasNote(active_notes, n) => Resolved(n) = DispatchedOn(n)

\* worker w runs handle_note_event for a note_on with velocity > 0 whose note
\* is in active_notes
Retrigger(w) ==
    /\ worker[w].pc = "track" /\ worker'[w].pc # "track"
    /\ worker[w].msg.type = "note_on" /\ worker[w].msg.velocity > 0
    /\ HasNote(active_notes, worker[w].msg.note)

\* C20: a re-trigger puts two entries into note_history, an OFF entry for
\* the previous instance with the duration since its start_time and, after
\* it, the new ON entry (newest first), and active_notes holds the new
\* instance.
C20_RetriggerImplicitOff ==
    [][\A w \in Workers : Retrigger(w) =>
          LET m == worker[w].msg
          IN  /\ note_history' =
                    << OnEntry(m.note, m.velocity),
                       OffEntry(m.note, now - StartOf(active_notes, m.note)) >>
                    \o note_history
              /\ HasNote(active_notes', m.note)
              /\ StartOf(active_notes', m.note) = now]_vars

\* the shared tempo / time-signature / key state as it is
CurrentMeta == MetaState(current_tempo, current_time_signature, current_key)

\* every event of the running session's file has been removed from the queue
\* and no worker still holds one
AllDispatched ==
    /\ is_playing /\ session.file # ""
    /\ gui.pc = "idle" /\ parse_queue = << >> /\ parser.pc = "idle"
    /\ midi_event_queue = << >>
    /\ removed = {FileEvents(session.file)[i] :
                     i \in 1 .. Len(FileEvents(session.file))}
    /\ NothingInFlight

\* C21: the get() of any midi_worker that removes a meta event from
\* midi_event_queue applies that event to current_tempo /
\* current_time_signature / current_key, and once every event of the file
\* has been dispatched the three hold the values of the file's last
\* set_tempo, time_signature and key_signature.
C21_MetaApplied ==
    /\ [][\A w \in Workers :
             (worker[w].pc = "get" /\ worker'[w].pc # "get"
                  /\ is_meta(Head(midi_event_queue)))
                => CurrentMeta' = handle_meta_message(CurrentMeta,
                                                      Head(midi_event_queue))]_vars
    /\ [](AllDispatched
            => CurrentMeta = extract_midi_info(midi_files[session.file],
                                               Len(midi_files[session.file])))

\* the non-meta events dispatched since the running session's
\* load_and_play_midi
Dispatched == {e \in removed : ~is_meta(e)}

\* C22: whenever no worker holds an event (the workers are idle), message_count
\* is the number of non-meta events dispatched since the running session's
\* load_and_play_midi.
C22_MessageCountExact ==
    (is_playing /\ NothingInFlight) => message_count = Cardinality(Dispatched)

\* the midi_worker threads that have not ended
LiveWorkers == {w \in DOMAIN worker : worker[w].pc # "done"}

\* C23: when restart_threads() returns, exactly num_midi_threads midi_worker
\* threads, one parse_worker and one note_worker are alive, every thread
\* created before the restart has ended, and the events that were in
\* midi_event_queue and the files that were in parse_queue are still there.
C23_ControlledRestart ==
    [][(gui.pc = "restart" /\ gui'.pc = "idle")
         => /\ Cardinality(LiveWorkers') = num_midi_threads
            /\ \A w \in DOMAIN worker : worker'[w].pc = "done"
            /\ parse_threads' = 1
            /\ note_threads' = 1
            /\ midi_event_queue' = midi_event_queue
            /\ parse_queue' = parse_queue]_vars

\* C24: note_history never holds more than 50 entries, and a step that adds
\* an entry puts it first, keeps the entries there were in their order
\* behind it and, when the history was full, drops the last (oldest) one.
C24_HistoryRing ==
    [][/\ Len(note_history) <= HistoryMaxLen
       /\ Len(note_history') <= HistoryMaxLen
       /\ note_history' # note_history
             => note_history' =
                    << note_history'[1] >>
                    \o SubSeq(note_history, 1,
                              IF Len(note_history) < HistoryMaxLen
                              THEN Len(note_history) ELSE HistoryMaxLen - 1)]_vars

\* C24 witness: file A's ON and OFF entries were added to a full history,
\* whose two oldest entries (velocities 1 and 2) are gone
C24_Witness ==
    /\ Len(note_history) = HistoryMaxLen
    /\ note_history[1].type = "OFF" /\ note_history[1].note = 60
    /\ note_history[2] = OnEntry(60, 64)
    /\ note_history[HistoryMaxLen] = OnEntry(62, 3)

\* C25: when a pending delayed stop fires (the QTimer of
\* check_playback_complete calls stop_playback) while a session plays, that
\* session is the one that was marked complete: a session that the user has
\* started since, and that has not completed, is not stopped by it.
C25_DelayedStopOwnSession ==
    [][(stop_timers' = stop_timers - 1 /\ gui'.pc = "stop" /\ is_playing)
         => playback_complete]_vars

\* the running session's file is still to be parsed, or parse_worker still has
\* events of it to put into midi_event_queue
ParsePending ==
    \/ gui.pc = "load_put"
    \/ \E i \in 1 .. Len(parse_queue) : parse_queue[i] = session.file
    \/ parser.pc = "put" /\ Head(parser.events).file = session.file

\* C26: a session is not marked complete while its file is still to be
\* parsed or parse_worker still has events of it to put into
\* midi_event_queue.
C26_NoPrematureCompletion ==
    (is_playing /\ playback_complete) => ~ParsePending

\* C27: a midi_worker that has peeked a due head and calls
\* midi_event_queue.get() gets out of the call, whatever the other worker
\* and clear_queues() do meanwhile.
C27_GetReturns ==
    \A w \in Workers : (worker[w].pc = "get") ~> (worker[w].pc # "get")

\* both ports are connected, the send on port 1 raises and the send on port
\* 2 would succeed
OnlyPort1Fails ==
    /\ port_connected[1] /\ port_connected[2]
    /\ port_broken[1] /\ ~port_broken[2]

\* C28: with both ports connected and port 1's send failing, port 2 still
\* receives every event a midi_worker dispatches and every message of
\* stop_playback's all-notes-off broadcast.
C28_Port2StillServed ==
    [][OnlyPort1Fails
         => /\ \A w \in Workers :
                  (worker[w].pc = "send" /\ worker'[w].pc # "send")
                     => Receives(2, << worker[w].msg >>)
            /\ (gui.pc = "stop" /\ gui'.pc = "stop_active")
                  => Receives(2, AllNotesOffMessages(active_notes))]_vars

\* C30: whenever the GUI thread has finished a handler, current_file_index
\* is -1 or an index into playlist, and while a file is playing it is the
\* index of that file.
C30_IndexDesignatesPlaying ==
    GuiIdle =>
        /\ current_file_index = -1 \/ ValidIndex(playlist, current_file_index)
        /\ is_playing
              => /\ ValidIndex(playlist, current_file_index)
                 /\ ItemAt(playlist, current_file_index) = session.file

\* C29: whenever the GUI thread has finished a handler (load_and_play_midi,
\* pause_playback, stop_playback, toggle_play_pause, play_next,
\* play_previous, the delayed stop of a completion), is_paused implies
\* is_playing, and pause_event is clear exactly when is_paused is true.
C29_FlagsConsistent ==
    GuiIdle =>
        /\ is_paused => is_playing
        /\ ~pause_event <=> is_paused

\* C29 witness: a session was paused and then stopped; the player is
\* Stopped with the pause gate open
C29_Witness ==
    /\ GuiIdle
    /\ ops.pause >= 1 /\ ops.stop >= 1
    /\ session.elapsed_at_pause # None
    /\ ~is_playing /\ ~is_paused /\ pause_event

====
